---- MODULE Spec2Model ----
(***************************************************************************)
(* distrikv: the bolt-backed storage engine (db/db.go), its two buckets    *)
(* ("default" = primary data, "replication" = outbox) and the replication  *)
(* puller that drains the outbox.                                          *)
(*                                                                         *)
(* A byte slice is a sequence of bytes; Go's nil slice is Nil.  A bucket   *)
(* is a function from the keys it holds to their values.  The committed    *)
(* store is db; a bolt write transaction (db.Update) works on a private    *)
(* copy (wtx.b) that replaces db at commit and is dropped at rollback;     *)
(* bolt admits one write transaction at a time; a read transaction         *)
(* (db.View) reads db.                                                     *)
(***************************************************************************)
EXTENDS Integers, Sequences, FiniteSets, TLC

\* ------------------------------------------------------------- bounds
NumVals == 2

\* the byte strings used as keys: the longer one sorts first in byte order
Keys == {<<2>>, <<1, 2>>}
Vals == {<<b>> : b \in 1..NumVals}

\* Go's nil byte slice (no byte is negative)
Nil == <<-1>>

\* the keys a caller may pass: the keys above and the empty string
EmptyKey == << >>
InputKeys == Keys \cup {EmptyKey}

defaultBucket == "default"
replicaBucket == "replication"

VARIABLES
    readOnly,        \* Database.readOnly
    db,              \* the committed buckets of the bolt file: name -> bucket
    wtx,             \* the write transaction in flight (bolt: at most one)
    clean,           \* DeleteExtraKeys from its scan to its commit
    ret,             \* what the last call returned, until the next call begins
    puller,          \* the replication puller's position and peeked entry
    remote,          \* the destination shard's store
    writersStopped,  \* no further SetKey is issued
    lastSet,         \* history: value of the last committed SetKey per key
    cleaned          \* history: key removed by cleanup since its last SetKey

vars == <<readOnly, db, wtx, clean, ret, puller, remote, writersStopped,
          lastSet, cleaned>>

\* ------------------------------------------------------------ buckets
EmptyBucket == [k \in {} |-> Nil]

\* bolt Bucket.Get: the value, or nil when the key is absent
Get(b, k) == IF k \in DOMAIN b THEN b[k] ELSE Nil

\* bolt Bucket.Put: insert or overwrite
Put(b, k, v) == [x \in (DOMAIN b) \cup {k} |-> IF x = k THEN v ELSE b[x]]

\* bolt Bucket.Put refuses a blank key
PutErr(k) == IF Len(k) = 0 THEN "ErrKeyRequired" ELSE "ok"

\* bolt Bucket.Delete: remove the key when present
Delete(b, k) == [x \in (DOMAIN b) \ {k} |-> b[x]]

\* bytes.Compare(a, b) < 0
BytesLess(a, b) ==
    \E i \in 1..Len(b) :
        /\ \A j \in 1..(i - 1) : j <= Len(a) /\ a[j] = b[j]
        /\ (i > Len(a) \/ a[i] < b[i])

\* bytes.Equal
BytesEqual(a, b) == a = b

\* copyByteSlice: nil stays nil, anything else is copied byte for byte
copyByteSlice(src) ==
    IF src = Nil THEN Nil ELSE [i \in 1..Len(src) |-> src[i]]

\* the smallest key of a non-empty key set, in byte order
MinKey(S) == CHOOSE k \in S : \A o \in S \ {k} : BytesLess(k, o)

\* variant of CursorFirst: the cursor positioned on the last pair (Cursor.Last)
CursorLast(b) ==
    IF DOMAIN b = {} THEN [key |-> Nil, value |-> Nil]
    ELSE LET k == CHOOSE x \in DOMAIN b :
                      \A o \in (DOMAIN b) \ {x} : BytesLess(o, x)
         IN [key |-> k, value |-> b[k]]

\* bolt Cursor.First: the first pair in key order, or (nil, nil)
CursorFirst(b) ==
    IF DOMAIN b = {} THEN [key |-> Nil, value |-> Nil]
    ELSE [key |-> MinKey(DOMAIN b), value |-> b[MinKey(DOMAIN b)]]

\* the keys of a set in byte order (the order of Bucket.ForEach)
RECURSIVE KeysInOrder(_)
KeysInOrder(S) ==
    IF S = {} THEN << >>
    ELSE <<MinKey(S)>> \o KeysInOrder(S \ {MinKey(S)})

\* variant of CreateBucketIfNotExists: the bucket is created anew, empty
CreateBucketAnew(bs, name) ==
    [n \in (DOMAIN bs) \cup {name} |->
        IF n = name THEN EmptyBucket ELSE bs[n]]

\* Tx.CreateBucketIfNotExists: an existing bucket is left as it is
CreateBucketIfNotExists(bs, name) ==
    IF name \in DOMAIN bs THEN bs ELSE bs @@ (name :> EmptyBucket)

\* createDefaultBucket: one update transaction ensuring both buckets
createDefaultBucket(bs) ==
    CreateBucketIfNotExists(CreateBucketIfNotExists(bs, defaultBucket),
                            replicaBucket)

\* a bolt file with no bucket in it yet
FreshFile == [n \in {} |-> EmptyBucket]

primary == db[defaultBucket]
outbox == db[replicaBucket]

\* -------------------------------------------------------- transactions
NoTx == [op |-> "none", pc |-> "none", key |-> Nil, value |-> Nil,
         keys |-> << >>, caller |-> "none", err |-> "ok",
         b |-> createDefaultBucket(FreshFile)]

NoRet == [op |-> "none", key |-> Nil, value |-> Nil, err |-> "ok"]

\* DeleteExtraKeys not running.  While it runs, keys is its local slice;
\* extra (the keys isExtra accepts) and written (the keys whose SetKey
\* committed since the scan) are history
Idle == [pc |-> "idle", keys |-> << >>, extra |-> {}, written |-> {}]

PullerIdle == [pc |-> "idle", key |-> Nil, value |-> Nil]

\* db.Update waits for the single writer lock
WriterFree == wtx.op = "none"

\* ---------------------------------------------------------------- Init
\* NewDatabase on a new file: both buckets created, the flag stored
Init ==
    /\ readOnly \in BOOLEAN
    /\ db = createDefaultBucket(FreshFile)
    /\ wtx = NoTx
    /\ clean = Idle
    /\ ret = NoRet
    /\ puller = PullerIdle
    /\ remote = EmptyBucket
    /\ writersStopped = FALSE
    /\ lastSet = [k \in Keys |-> Nil]
    /\ cleaned = [k \in Keys |-> FALSE]

\* -------------------------------------------------------------- SetKey
\* variant of SetKeyBegin: the read-only check left out
SetKeyBeginNoCheck(k, v) ==
    /\ ~writersStopped
    /\ WriterFree
    /\ wtx' = [NoTx EXCEPT !.op = "set", !.pc = "putDefault",
                           !.key = k, !.value = v, !.b = db]
    /\ ret' = NoRet
    /\ UNCHANGED <<readOnly, db, clean, puller, remote, writersStopped,
                   lastSet, cleaned>>

\* SetKey entry: the read-only check, then db.Update begins
SetKeyBegin(k, v) ==
    /\ ~writersStopped
    /\ IF readOnly
       THEN /\ ret' = [op |-> "set", key |-> k, value |-> v,
                       err |-> "read only mode"]
            /\ UNCHANGED wtx
       ELSE /\ WriterFree
            /\ wtx' = [NoTx EXCEPT !.op = "set", !.pc = "putDefault",
                                   !.key = k, !.value = v, !.b = db]
            /\ ret' = NoRet
    /\ UNCHANGED <<readOnly, db, clean, puller, remote, writersStopped,
                   lastSet, cleaned>>

\* variant of SetKeyPut: a key already pending in the outbox is not queued again
SetKeyPutKeepPending(tx, name, nextPc) ==
    IF PutErr(tx.key) # "ok"
    THEN [tx EXCEPT !.pc = "rollback", !.err = PutErr(tx.key)]
    ELSE IF name = replicaBucket /\ tx.key \in DOMAIN tx.b[name]
    THEN [tx EXCEPT !.pc = nextPc]
    ELSE [tx EXCEPT !.pc = nextPc,
                    !.b = [tx.b EXCEPT ![name] = Put(tx.b[name], tx.key, tx.value)]]

\* variant of SetKeyPut: the value appended to the one already stored
SetKeyPutAppend(tx, name, nextPc) ==
    IF PutErr(tx.key) # "ok"
    THEN [tx EXCEPT !.pc = "rollback", !.err = PutErr(tx.key)]
    ELSE [tx EXCEPT !.pc = nextPc,
                    !.b = [tx.b EXCEPT ![name] =
                             Put(tx.b[name], tx.key,
                                 IF tx.key \in DOMAIN tx.b[name]
                                 THEN tx.b[name][tx.key] \o tx.value
                                 ELSE tx.value)]]

\* one Put of the SetKey closure on bucket `name`; on error the closure
\* returns it and the transaction ends at pc "rollback"
SetKeyPut(tx, name, nextPc) ==
    IF PutErr(tx.key) # "ok"
    THEN [tx EXCEPT !.pc = "rollback", !.err = PutErr(tx.key)]
    ELSE [tx EXCEPT !.pc = nextPc,
                    !.b = [tx.b EXCEPT ![name] = Put(tx.b[name], tx.key, tx.value)]]

\* variant of SetKeyPutDefault: the primary write committed in a transaction
\* of its own, the outbox write following in a second one
SetKeyPutDefaultOwnTx ==
    /\ wtx.op = "set" /\ wtx.pc = "putDefault"
    /\ wtx' = SetKeyPut(wtx, defaultBucket, "putReplica")
    /\ db' = SetKeyPut(wtx, defaultBucket, "putReplica").b
    /\ UNCHANGED <<readOnly, clean, ret, puller, remote, writersStopped,
                   lastSet, cleaned>>

\* t.Bucket(defaultBucket).Put(key, value)
SetKeyPutDefault ==
    /\ wtx.op = "set" /\ wtx.pc = "putDefault"
    /\ wtx' = SetKeyPut(wtx, defaultBucket, "putReplica")
    /\ UNCHANGED <<readOnly, db, clean, ret, puller, remote, writersStopped,
                   lastSet, cleaned>>

\* t.Bucket(replicaBucket).Put(key, value)
SetKeyPutReplica ==
    /\ wtx.op = "set" /\ wtx.pc = "putReplica"
    /\ wtx' = SetKeyPut(wtx, replicaBucket, "commit")
    /\ UNCHANGED <<readOnly, db, clean, ret, puller, remote, writersStopped,
                   lastSet, cleaned>>

\* the closure returned nil: db.Update commits and SetKey returns nil
SetKeyCommit ==
    /\ wtx.op = "set" /\ wtx.pc = "commit"
    /\ db' = wtx.b
    /\ ret' = [op |-> "set", key |-> wtx.key, value |-> wtx.value, err |-> "ok"]
    /\ lastSet' = [lastSet EXCEPT ![wtx.key] = wtx.value]
    /\ cleaned' = [cleaned EXCEPT ![wtx.key] = FALSE]
    /\ clean' = IF clean.pc = "idle" THEN clean
                ELSE [clean EXCEPT !.written = @ \cup {wtx.key}]
    /\ wtx' = NoTx
    /\ UNCHANGED <<readOnly, puller, remote, writersStopped>>

\* the closure returned an error: db.Update rolls back and returns it
SetKeyRollback ==
    /\ wtx.op = "set" /\ wtx.pc = "rollback"
    /\ ret' = [op |-> "set", key |-> wtx.key, value |-> wtx.value,
               err |-> wtx.err]
    /\ wtx' = NoTx
    /\ UNCHANGED <<readOnly, db, clean, puller, remote, writersStopped,
                   lastSet, cleaned>>

\* -------------------------------------------------------------- GetKey
\* variant of GetKeyView: the read goes to the replication bucket
GetKeyViewReplica(bs, k) == [value |-> Get(bs[replicaBucket], k), err |-> "ok"]

\* the body of GetKey's view transaction: res = b.Get(key), err = nil
GetKeyView(bs, k) == [value |-> Get(bs[defaultBucket], k), err |-> "ok"]

GetKey(k) ==
    /\ ret' = [op |-> "get", key |-> k, value |-> GetKeyView(db, k).value,
               err |-> GetKeyView(db, k).err]
    /\ UNCHANGED <<readOnly, db, wtx, clean, puller, remote, writersStopped,
                   lastSet, cleaned>>

\* ------------------------------------------------ GetNextForReplication
\* the body of the view transaction: the cursor's first pair, copied
GetNextForReplicationView(bs) ==
    [key |-> copyByteSlice(CursorFirst(bs[replicaBucket]).key),
     value |-> copyByteSlice(CursorFirst(bs[replicaBucket]).value),
     err |-> "ok"]

GetNextForReplication ==
    /\ ret' = [op |-> "peek", key |-> GetNextForReplicationView(db).key,
               value |-> GetNextForReplicationView(db).value,
               err |-> GetNextForReplicationView(db).err]
    /\ UNCHANGED <<readOnly, db, wtx, clean, puller, remote, writersStopped,
                   lastSet, cleaned>>

\* ------------------------------------------------- DeleteReplicationKey
\* variant of DeleteReplicationKeyTx: the value comparison left out
DeleteReplicationKeyTxNoCompare(bs, key, value) ==
    LET v == Get(bs[replicaBucket], key) IN
    IF v = Nil
    THEN [b |-> bs, err |-> "key does not exist"]
    ELSE [b |-> [bs EXCEPT ![replicaBucket] = Delete(bs[replicaBucket], key)],
          err |-> "ok"]

\* variant of DeleteReplicationKeyTx: the comparison inverted
DeleteReplicationKeyTxInverted(bs, key, value) ==
    LET v == Get(bs[replicaBucket], key) IN
    IF v = Nil
    THEN [b |-> bs, err |-> "key does not exist"]
    ELSE IF BytesEqual(v, value)
    THEN [b |-> bs, err |-> "value does not match"]
    ELSE [b |-> [bs EXCEPT ![replicaBucket] = Delete(bs[replicaBucket], key)],
          err |-> "ok"]

\* variant of DeleteReplicationKeyTx: nil returned without the Delete
DeleteReplicationKeyTxNoDelete(bs, key, value) ==
    LET v == Get(bs[replicaBucket], key) IN
    IF v = Nil
    THEN [b |-> bs, err |-> "key does not exist"]
    ELSE IF ~BytesEqual(v, value)
    THEN [b |-> bs, err |-> "value does not match"]
    ELSE [b |-> bs, err |-> "ok"]

\* variant of DeleteReplicationKeyTx: the Delete goes to the default bucket
DeleteReplicationKeyTxWrongBucket(bs, key, value) ==
    LET v == Get(bs[replicaBucket], key) IN
    IF v = Nil
    THEN [b |-> bs, err |-> "key does not exist"]
    ELSE IF ~BytesEqual(v, value)
    THEN [b |-> bs, err |-> "value does not match"]
    ELSE [b |-> [bs EXCEPT ![defaultBucket] = Delete(bs[defaultBucket], key)],
          err |-> "ok"]

\* variant of DeleteReplicationKeyTx: the key deleted from both buckets
DeleteReplicationKeyTxBothBuckets(bs, key, value) ==
    LET v == Get(bs[replicaBucket], key) IN
    IF v = Nil
    THEN [b |-> bs, err |-> "key does not exist"]
    ELSE IF ~BytesEqual(v, value)
    THEN [b |-> bs, err |-> "value does not match"]
    ELSE [b |-> [n \in DOMAIN bs |-> Delete(bs[n], key)], err |-> "ok"]

\* the closure of DeleteReplicationKey on the transaction's buckets:
\* the buckets it leaves and the error it returns
DeleteReplicationKeyTx(bs, key, value) ==
    LET v == Get(bs[replicaBucket], key) IN
    IF v = Nil
    THEN [b |-> bs, err |-> "key does not exist"]
    ELSE IF ~BytesEqual(v, value)
    THEN [b |-> bs, err |-> "value does not match"]
    ELSE [b |-> [bs EXCEPT ![replicaBucket] = Delete(bs[replicaBucket], key)],
          err |-> "ok"]

\* db.Update begins and runs the closure, for the caller `who`
AckTx(k, v, who) ==
    [NoTx EXCEPT !.op = "ack", !.pc = "end", !.key = k, !.value = v,
                 !.caller = who,
                 !.b = DeleteReplicationKeyTx(db, k, v).b,
                 !.err = DeleteReplicationKeyTx(db, k, v).err]

\* DeleteReplicationKey called by any client of the handle
DeleteReplicationKeyBegin(k, v) ==
    /\ WriterFree
    /\ wtx' = AckTx(k, v, "client")
    /\ ret' = NoRet
    /\ UNCHANGED <<readOnly, db, clean, puller, remote, writersStopped,
                   lastSet, cleaned>>

\* db.Update ends: commit when the closure returned nil, else rollback;
\* the error is returned to the caller
DeleteReplicationKeyEnd ==
    /\ wtx.op = "ack" /\ wtx.pc = "end"
    /\ db' = IF wtx.err = "ok" THEN wtx.b ELSE db
    /\ ret' = [op |-> "ack", key |-> wtx.key, value |-> wtx.value,
               err |-> wtx.err]
    /\ puller' = IF wtx.caller = "puller" THEN PullerIdle ELSE puller
    /\ wtx' = NoTx
    /\ UNCHANGED <<readOnly, clean, remote, writersStopped, lastSet, cleaned>>

\* ------------------------------------------------------ DeleteExtraKeys
\* variant of ScanKeys: the keys isExtra rejects are collected
ScanKeysInverted(bs, extra) ==
    LET notExtra(k) == k \notin extra
    IN SelectSeq(KeysInOrder(DOMAIN bs[defaultBucket]), notExtra)

\* the scan: ForEach over the primary bucket in key order, collecting the
\* keys isExtra accepts (isExtra is true exactly on the set extra)
ScanKeys(bs, extra) ==
    LET isExtra(k) == k \in extra
    IN SelectSeq(KeysInOrder(DOMAIN bs[defaultBucket]), isExtra)

\* variant of DeleteKeys: the loop returns after its first Delete
DeleteKeysFirstOnly(b, keys) ==
    IF keys = << >> THEN b ELSE Delete(b, Head(keys))

\* the delete loop: b.Delete of every collected key
RECURSIVE DeleteKeys(_, _)
DeleteKeys(b, keys) ==
    IF keys = << >> THEN b
    ELSE DeleteKeys(Delete(b, Head(keys)), Tail(keys))

\* first phase: the view transaction
DeleteExtraKeysScan(extra) ==
    /\ clean.pc = "idle"
    /\ clean' = [pc |-> "scanned", keys |-> ScanKeys(db, extra),
                 extra |-> extra, written |-> {}]
    /\ ret' = NoRet
    /\ UNCHANGED <<readOnly, db, wtx, puller, remote, writersStopped,
                   lastSet, cleaned>>

\* variant of DeleteExtraKeysUpdate: the keys deleted from both buckets
DeleteExtraKeysUpdateBothBuckets ==
    /\ clean.pc = "scanned"
    /\ WriterFree
    /\ wtx' = [NoTx EXCEPT !.op = "clean", !.pc = "commit",
                           !.keys = clean.keys,
                           !.b = [n \in DOMAIN db |-> DeleteKeys(db[n], clean.keys)]]
    /\ clean' = [clean EXCEPT !.pc = "deleting"]
    /\ ret' = NoRet
    /\ UNCHANGED <<readOnly, db, puller, remote, writersStopped,
                   lastSet, cleaned>>

\* second phase: db.Update begins and runs the delete loop
DeleteExtraKeysUpdate ==
    /\ clean.pc = "scanned"
    /\ WriterFree
    /\ wtx' = [NoTx EXCEPT !.op = "clean", !.pc = "commit",
                           !.keys = clean.keys,
                           !.b = [db EXCEPT ![defaultBucket] =
                                      DeleteKeys(db[defaultBucket], clean.keys)]]
    /\ clean' = [clean EXCEPT !.pc = "deleting"]
    /\ ret' = NoRet
    /\ UNCHANGED <<readOnly, db, puller, remote, writersStopped,
                   lastSet, cleaned>>

\* the update transaction commits and DeleteExtraKeys returns nil
DeleteExtraKeysCommit ==
    /\ wtx.op = "clean" /\ wtx.pc = "commit"
    /\ db' = wtx.b
    /\ ret' = [op |-> "clean", key |-> Nil, value |-> Nil, err |-> "ok"]
    /\ cleaned' = [k \in Keys |->
                     IF \E i \in 1..Len(wtx.keys) : wtx.keys[i] = k
                     THEN TRUE ELSE cleaned[k]]
    /\ clean' = Idle
    /\ wtx' = NoTx
    /\ UNCHANGED <<readOnly, puller, remote, writersStopped, lastSet>>

\* ---------------------------------------------------------- NewDatabase
\* the handle is closed (bolt waits for open transactions) and the file is
\* opened again: existing buckets are kept, the flag is the new one
NewDatabase(ro) ==
    /\ WriterFree
    /\ clean.pc = "idle"
    /\ puller.pc = "idle"
    /\ readOnly' = ro
    /\ db' = createDefaultBucket(db)
    /\ ret' = NoRet
    /\ UNCHANGED <<wtx, clean, puller, remote, writersStopped, lastSet,
                   cleaned>>

\* ---------------------------------------------------- ReplicationPuller
\* step 1: peek; an empty outbox leaves the puller waiting for the next poll
PullerPeek ==
    /\ puller.pc = "idle"
    /\ LET r == GetNextForReplicationView(db) IN
       /\ ret' = [op |-> "peek", key |-> r.key, value |-> r.value,
                  err |-> r.err]
       /\ puller' = IF r.key = Nil THEN PullerIdle
                    ELSE [pc |-> "push", key |-> r.key, value |-> r.value]
    /\ UNCHANGED <<readOnly, db, wtx, clean, remote, writersStopped,
                   lastSet, cleaned>>

\* step 3: the remote applies (key, value) as a plain overwrite and confirms
PullerPushOk ==
    /\ puller.pc = "push"
    /\ remote' = Put(remote, puller.key, puller.value)
    /\ puller' = [puller EXCEPT !.pc = "ack"]
    /\ UNCHANGED <<readOnly, db, wtx, clean, ret, writersStopped, lastSet,
                   cleaned>>

\* step 3 failing (network, timeout): nothing is acknowledged
PullerPushFail ==
    /\ puller.pc = "push"
    /\ puller' = PullerIdle
    /\ UNCHANGED <<readOnly, db, wtx, clean, ret, remote, writersStopped,
                   lastSet, cleaned>>

\* step 4: acknowledge exactly the pair that was peeked and pushed
PullerAck ==
    /\ puller.pc = "ack"
    /\ WriterFree
    /\ wtx' = AckTx(puller.key, puller.value, "puller")
    /\ puller' = [puller EXCEPT !.pc = "acking"]
    /\ ret' = NoRet
    /\ UNCHANGED <<readOnly, db, clean, remote, writersStopped,
                   lastSet, cleaned>>

\* the writers stop issuing SetKey
StopWriters ==
    /\ ~writersStopped
    /\ writersStopped' = TRUE
    /\ UNCHANGED <<readOnly, db, wtx, clean, ret, puller, remote, lastSet,
                   cleaned>>

\* ------------------------------------------------------ specifications
\* the storage engine under arbitrary clients of one handle
Next ==
    \/ \E k \in InputKeys, v \in Vals : SetKeyBegin(k, v)
    \/ SetKeyPutDefault
    \/ SetKeyPutReplica
    \/ SetKeyCommit
    \/ SetKeyRollback
    \/ \E k \in InputKeys : GetKey(k)
    \/ GetNextForReplication
    \/ \E k \in InputKeys, v \in Vals : DeleteReplicationKeyBegin(k, v)
    \/ DeleteReplicationKeyEnd
    \/ \E extra \in SUBSET Keys : DeleteExtraKeysScan(extra)
    \/ DeleteExtraKeysUpdate
    \/ DeleteExtraKeysCommit
    \/ \E ro \in BOOLEAN : NewDatabase(ro)

Spec == Init /\ [][Next]_vars

\* writers and the one puller, the only caller of the acknowledgment
NextPuller ==
    \/ \E k \in InputKeys, v \in Vals : SetKeyBegin(k, v)
    \/ SetKeyPutDefault
    \/ SetKeyPutReplica
    \/ SetKeyCommit
    \/ SetKeyRollback
    \/ PullerPeek
    \/ PullerPushOk
    \/ PullerPushFail
    \/ PullerAck
    \/ DeleteReplicationKeyEnd

PullerSpec == Init /\ [][NextPuller]_vars

NextLive == NextPuller \/ StopWriters

\* transactions run to their end, the puller keeps polling, and a push that
\* is retried forever eventually succeeds
Fairness ==
    /\ WF_vars(SetKeyPutDefault)
    /\ WF_vars(SetKeyPutReplica)
    /\ WF_vars(SetKeyCommit)
    /\ WF_vars(SetKeyRollback)
    /\ WF_vars(DeleteReplicationKeyEnd)
    /\ WF_vars(PullerPeek)
    /\ SF_vars(PullerPushOk)
    /\ SF_vars(PullerAck)

LiveSpec == Init /\ [][NextLive]_vars /\ Fairness

\* the key that sorts first among the keys written
LowKey == MinKey(Keys)

\* a schedule of writers and puller in which every poll finds the low key
\* pending again: the handle is writable, no push fails, and the writers get
\* their SetKey of the low key in before the puller's next poll
InitStarve == Init /\ ~readOnly

NextStarve ==
    \/ \E k \in Keys, v \in Vals : SetKeyBegin(k, v)
    \/ SetKeyPutDefault
    \/ SetKeyPutReplica
    \/ SetKeyCommit
    \/ (LowKey \in DOMAIN outbox /\ PullerPeek)
    \/ PullerPushOk
    \/ PullerAck
    \/ DeleteReplicationKeyEnd

\* a writer keeps issuing SetKey of the low key; the puller and the
\* transactions are scheduled as in Fairness
FairnessStarve ==
    /\ SF_vars(\E v \in Vals : SetKeyBegin(LowKey, v))
    /\ WF_vars(SetKeyPutDefault)
    /\ WF_vars(SetKeyPutReplica)
    /\ WF_vars(SetKeyCommit)
    /\ WF_vars(DeleteReplicationKeyEnd)
    /\ WF_vars(LowKey \in DOMAIN outbox /\ PullerPeek)
    /\ WF_vars(PullerPushOk)
    /\ SF_vars(PullerAck)

StarveSpec == InitStarve /\ [][NextStarve]_vars /\ FairnessStarve

\* ---------------------------------------------------------- properties
\* what GetKey is expected to return for k, from the history alone
Expected(k) ==
    IF k \notin Keys THEN Nil
    ELSE IF cleaned[k] THEN Nil
    ELSE lastSet[k]

\* a call with the given name returned in this step
Returned(name) == ret'.op = name /\ ret' # ret

\* C1: SetKey is atomic for readers: no step of the committed store makes
\* primary[k] take a new value without outbox[k] taking the same value in
\* that very step, nor the reverse.
C1_SetKeyAtomic ==
    [][\A k \in Keys :
          /\ (Get(primary', k) # Get(primary, k) /\ Get(primary', k) # Nil)
                => Get(outbox', k) = Get(primary', k)
          /\ (Get(outbox', k) # Get(outbox, k) /\ Get(outbox', k) # Nil)
                => Get(primary', k) = Get(outbox', k)]_vars

\* a reader ran while a SetKey transaction had written primary but not yet
\* the outbox, and saw the committed value, not the new one
C1_Witness ==
    /\ wtx.op = "set" /\ wtx.pc = "putReplica"
    /\ Get(wtx.b[defaultBucket], wtx.key) = wtx.value
    /\ Get(wtx.b[replicaBucket], wtx.key) # wtx.value
    /\ ret.op = "get" /\ ret.key = wtx.key
    /\ ret.value # wtx.value

C3_OutboxLatest ==
    /\ [](/\ DOMAIN outbox \subseteq Keys
          /\ \A k \in DOMAIN outbox : outbox[k] = lastSet[k])
    /\ [][(Returned("peek") /\ ret'.key # Nil)
             => ret'.value = lastSet[ret'.key]]_vars

\* a second SetKey of a key is about to commit over a pending entry that
\* holds another value
C3_Witness ==
    /\ wtx.op = "set" /\ wtx.pc = "commit"
    /\ wtx.key \in DOMAIN outbox
    /\ outbox[wtx.key] # wtx.value
    /\ wtx.b[replicaBucket][wtx.key] = wtx.value
    /\ Cardinality(DOMAIN wtx.b[replicaBucket]) = 1

\* C4: an outbox entry disappears only in the step in which a
\* DeleteReplicationKey for its key returns success.
C4_OnlyAckRemoves ==
    [][\A k \in DOMAIN outbox :
          k \notin DOMAIN outbox'
              => /\ Returned("ack")
                 /\ ret'.err = "ok"
                 /\ ret'.key = k
                 /\ ret'.value = outbox[k]]_vars

\* cleanup removed a key from primary and its outbox entry is still there
C4_Witness ==
    /\ ret.op = "clean"
    /\ \E k \in Keys :
          /\ cleaned[k]
          /\ k \notin DOMAIN primary
          /\ k \in DOMAIN outbox

\* C5: with the one puller, an outbox entry is removed only for the pair the
\* puller peeked and pushed; an acknowledgment that meets a newer value
\* fails with "value does not match" and leaves that value pending; a peek
\* returns the latest value of the key it returns.
C5_NoLostUpdate ==
    [][/\ \A k \in DOMAIN outbox :
            k \notin DOMAIN outbox'
                => /\ puller.pc = "acking"
                   /\ puller.key = k
                   /\ puller.value = outbox[k]
                   /\ Get(remote, k) = outbox[k]
       /\ (Returned("ack") /\ Get(outbox, ret'.key) # ret'.value)
             => /\ ret'.err = "value does not match"
                /\ outbox' = outbox
                /\ Get(outbox', ret'.key) = lastSet[ret'.key]
       /\ (Returned("peek") /\ ret'.key # Nil)
             => ret'.value = lastSet[ret'.key]]_vars

\* the puller's acknowledgment of a superseded value failed and the newer
\* value is still pending
C5_Witness ==
    /\ ret.op = "ack" /\ ret.err = "value does not match"
    /\ Get(remote, ret.key) = ret.value
    /\ Get(outbox, ret.key) = lastSet[ret.key]
    /\ Get(outbox, ret.key) # ret.value
    /\ puller.pc = "idle"

Converged ==
    /\ DOMAIN outbox = {}
    /\ \A k \in Keys : lastSet[k] # Nil => Get(remote, k) = lastSet[k]

\* C7: once the writers have stopped, with a fair puller and pushes that
\* eventually succeed, the outbox becomes empty and the remote holds the
\* last committed value of every key written, and stays so.
C7_Convergence == writersStopped ~> []Converged

\* writers stopped after writing both keys and everything was delivered
C7_Witness ==
    /\ writersStopped
    /\ Converged
    /\ \A k \in Keys : lastSet[k] # Nil
    /\ puller.pc = "idle"

\* C8: on a read-only handle SetKey fails with "read only mode" and changes
\* nothing; GetKey still succeeds with the stored value, or not-found for a
\* key never written.
C8_ReadOnly ==
    [][readOnly =>
         /\ Returned("set")
               => /\ ret'.err = "read only mode"
                  /\ db' = db
                  /\ wtx' = wtx
         /\ Returned("get")
               => /\ ret'.err = "ok"
                  /\ ret'.value = Get(primary, ret'.key)
                  /\ ret'.value = Expected(ret'.key)
         /\ (wtx.op # "set" => wtx'.op # "set")]_vars

\* SetKey was refused on a read-only handle whose store holds the key
C8_Witness ==
    /\ readOnly
    /\ ret.op = "set" /\ ret.err = "read only mode"
    /\ ret.key \in DOMAIN primary
    /\ primary[ret.key] # ret.value

\* C9: GetKey(k) returns without error the value of the most recent
\* committed SetKey of k not since removed by cleanup, and nil when k was
\* never written or was removed; right after SetKey(k, v) returned it
\* returns v; GetKey changes nothing in the store.
C9_LastWriteWins ==
    [][Returned("get") =>
         /\ ret'.err = "ok"
         /\ ret'.value = Expected(ret'.key)
         /\ (ret.op = "set" /\ ret.err = "ok" /\ ret.key = ret'.key)
               => ret'.value = ret.value
         /\ db' = db
         /\ wtx' = wtx]_vars

\* a key written twice and already acknowledged reads as its latest value
\* while a further write of it is uncommitted
C9_Witness ==
    /\ ret.op = "get"
    /\ ret.value # Nil
    /\ ret.value = lastSet[ret.key]
    /\ ret.key \notin DOMAIN outbox
    /\ wtx.op = "set" /\ wtx.key = ret.key /\ wtx.value # ret.value
    /\ wtx.pc = "commit"

\* C10: GetNextForReplication returns the pending entry with the smallest
\* key in byte order and its current value, nil exactly when the outbox is
\* empty, and leaves the store as it was.
C10_PeekSmallest ==
    [][Returned("peek") =>
         /\ ret'.err = "ok"
         /\ db' = db
         /\ (ret'.key = Nil) <=> (DOMAIN outbox = {})
         /\ (ret'.key = Nil) => ret'.value = Nil
         /\ (DOMAIN outbox # {}) =>
               /\ ret'.key \in DOMAIN outbox
               /\ ret'.value = outbox[ret'.key]
               /\ \A o \in DOMAIN outbox \ {ret'.key} :
                      BytesLess(ret'.key, o) /\ ~BytesLess(o, ret'.key)]_vars

\* with both keys pending the peek returned the longer key that sorts first
C10_Witness ==
    /\ ret.op = "peek"
    /\ ret.key = <<1, 2>>
    /\ <<2>> \in DOMAIN outbox
    /\ ret.value = outbox[<<1, 2>>]
    /\ outbox[<<2>>] # ret.value

\* the keys in a slice of keys
Range(keys) == {keys[i] : i \in 1..Len(keys)}

\* C11: DeleteExtraKeys with no SetKey committed since its scan removes
\* from primary exactly the keys isExtra accepts: each of them is absent
\* afterwards and every other key keeps its value.
C11_CleanupExact ==
    [][(Returned("clean") /\ clean.written = {}) =>
         /\ Range(clean.keys) = (DOMAIN primary) \cap clean.extra
         /\ DOMAIN primary' = (DOMAIN primary) \ clean.extra
         /\ \A k \in clean.extra : k \notin DOMAIN primary'
         /\ \A k \in DOMAIN primary' : primary'[k] = primary[k]]_vars

\* a cleanup that collected one key and keeps another is about to commit,
\* no write having come in between
C11_Witness ==
    /\ wtx.op = "clean" /\ wtx.pc = "commit"
    /\ clean.written = {}
    /\ Len(clean.keys) = 1
    /\ \E k \in DOMAIN primary : k \notin clean.extra
    /\ clean.keys[1] \notin DOMAIN wtx.b[defaultBucket]

\* C12: SetKey is a plain overwrite and so idempotent: a committed
\* SetKey(k, v) leaves primary[k] = v and outbox[k] = v, and applied to a
\* store that already holds both it changes nothing.
C12_SetKeyIdempotent ==
    [][(Returned("set") /\ ret'.err = "ok") =>
         LET k == ret'.key
             v == ret'.value
         IN /\ Get(primary', k) = v
            /\ Get(outbox', k) = v
            /\ (Get(primary, k) = v /\ Get(outbox, k) = v /\ lastSet[k] = v)
                  => db' = db]_vars

\* the same SetKey(k, v) is about to commit a second time on a store that
\* still holds primary[k] = v and outbox[k] = v from the first
C12_Witness ==
    /\ wtx.op = "set" /\ wtx.pc = "commit"
    /\ Get(primary, wtx.key) = wtx.value
    /\ Get(outbox, wtx.key) = wtx.value
    /\ lastSet[wtx.key] = wtx.value
    /\ wtx.b = db

\* C14: whatever was committed since the scan, the delete transaction
\* removes exactly the collected keys: a collected key overwritten in
\* between is absent afterwards, its newer value left to the outbox, which
\* cleanup does not touch; an extra key first written in between stays.
C14_CleanupRace ==
    [][Returned("clean") =>
         /\ DOMAIN primary' = (DOMAIN primary) \ Range(clean.keys)
         /\ \A k \in DOMAIN primary' : primary'[k] = primary[k]
         /\ outbox' = outbox
         /\ \A k \in Range(clean.keys) \cap clean.written :
               /\ k \notin DOMAIN primary'
               /\ k \in DOMAIN outbox' => outbox'[k] = lastSet[k]
         /\ \A k \in (clean.extra \cap clean.written) \ Range(clean.keys) :
               /\ k \in DOMAIN primary'
               /\ primary'[k] = lastSet[k]]_vars

\* a cleanup is about to commit after one collected key was overwritten and
\* another extra key was first written since its scan
C14_Witness ==
    /\ wtx.op = "clean" /\ wtx.pc = "commit"
    /\ \E k \in Range(clean.keys) \cap clean.written :
          /\ k \in DOMAIN primary
          /\ k \in DOMAIN outbox
          /\ k \notin DOMAIN wtx.b[defaultBucket]
    /\ \E k \in (clean.extra \cap clean.written) \ Range(clean.keys) :
          k \in DOMAIN wtx.b[defaultBucket]

\* C15: key-ordered draining can starve: in the executions where the
\* writers rewrite the low key before every poll, the puller is scheduled
\* fairly and pushes and acknowledges again and again with no push failing,
\* and yet an entry pending for a higher key stays pending for ever and is
\* never peeked, pushed or acknowledged.
C15_Starvation ==
    /\ [][\A k \in DOMAIN outbox :
             BytesLess(LowKey, k) =>
                 /\ k \in DOMAIN outbox'
                 /\ puller'.key # k
                 /\ ~(ret'.op \in {"peek", "ack"} /\ ret'.key = k)]_vars
    /\ []<>(puller.pc = "ack")
    /\ []<>(ret.op = "ack")
    /\ Fairness

\* the puller completed a round on the low key while an entry for the higher
\* key was pending and had never reached the remote
C15_Witness ==
    /\ ret.op = "ack" /\ ret.err = "ok" /\ ret.key = LowKey
    /\ Get(remote, LowKey) = lastSet[LowKey]
    /\ \E k \in DOMAIN outbox :
          /\ BytesLess(LowKey, k)
          /\ k \notin DOMAIN remote

\* C16: as its doc comment says, DeleteReplicationKey for a key with no
\* entry in the replication queue returns no error and leaves the queue as
\* it was.
C16_AbsentKeyOk ==
    [][(Returned("ack") /\ ret'.key \notin DOMAIN outbox) =>
         /\ ret'.err = "ok"
         /\ outbox' = outbox]_vars

\* C17: opening is idempotent: both buckets exist in every state after
\* construction, opening a store again leaves every record and outbox entry
\* as it was (the store changes only when SetKey, DeleteReplicationKey or
\* DeleteExtraKeys commits), and GetKey and GetNextForReplication never
\* return an error.
C17_OpenIdempotent ==
    /\ [](DOMAIN db = {defaultBucket, replicaBucket})
    /\ [][/\ (\E ro \in BOOLEAN : NewDatabase(ro)) => db' = db
          /\ readOnly' # readOnly => db' = db
          /\ db' # db => (ret' # ret /\ ret'.op \in {"set", "ack", "clean"})
          /\ (Returned("get") \/ Returned("peek")) => ret'.err = "ok"]_vars

\* a store holding a record and an outbox entry was opened again read-only
C17_Witness ==
    /\ readOnly
    /\ ret = NoRet
    /\ WriterFree /\ clean.pc = "idle"
    /\ \E k \in DOMAIN primary : k \in DOMAIN outbox

\* k has an outbox entry and no primary record
OutboxOnly(k) == k \in DOMAIN outbox /\ k \notin DOMAIN primary

\* k has a primary record and no outbox entry
PrimaryOnly(k) == k \in DOMAIN primary /\ k \notin DOMAIN outbox

\* C18: a key with both a primary record and an outbox entry has the same
\* value in both; a key comes to have an outbox entry without a primary
\* record only by a cleanup commit that deleted it, and a primary record
\* without an outbox entry only by a successful acknowledgment of it.
C18_Agreement ==
    /\ [](\A k \in (DOMAIN primary) \cap (DOMAIN outbox) :
             primary[k] = outbox[k])
    /\ [](\A k \in Keys : OutboxOnly(k) => cleaned[k])
    /\ [][\A k \in Keys :
            /\ (OutboxOnly(k)' /\ ~OutboxOnly(k))
                  => /\ Returned("clean")
                     /\ k \in Range(clean.keys)
            /\ (PrimaryOnly(k)' /\ ~PrimaryOnly(k))
                  => /\ Returned("ack")
                     /\ ret'.err = "ok"
                     /\ ret'.key = k]_vars

\* one key was removed by cleanup with its entry pending, the other was
\* acknowledged with its record in place
C18_Witness ==
    /\ \E k \in Keys : OutboxOnly(k) /\ cleaned[k]
    /\ \E k \in Keys : PrimaryOnly(k) /\ primary[k] = lastSet[k]
    /\ WriterFree

\* C19: on a handle opened read-only no operation changes the contents of
\* the primary bucket or of the replication bucket.
C19_ReadOnlyNeverMutates ==
    [][readOnly => (primary' = primary /\ outbox' = outbox)]_vars

\* C20: DeleteReplicationKey, succeeding or failing, changes no primary
\* record, so every GetKey reads the same before and after it;
\* DeleteExtraKeys changes no outbox entry, so the peek returns the same
\* before and after it, also for a key it removed from primary.
C20_Frame ==
    [][/\ Returned("ack") =>
             /\ primary' = primary
             /\ \A k \in InputKeys : GetKeyView(db', k) = GetKeyView(db, k)
       /\ Returned("clean") =>
             /\ outbox' = outbox
             /\ GetNextForReplicationView(db') = GetNextForReplicationView(db)
       /\ (Returned("peek") /\ ret'.key # Nil) =>
             ret'.value = outbox[ret'.key]]_vars

\* a peek returned the pending entry of a key that cleanup had removed from
\* primary
C20_Witness ==
    /\ ret.op = "peek"
    /\ ret.key \in Keys
    /\ cleaned[ret.key]
    /\ ret.key \notin DOMAIN primary
    /\ ret.value = lastSet[ret.key]
    /\ Get(outbox, ret.key) = ret.value
====
